---- MODULE Spec2Model ----
(***************************************************************************)
(* Model of examples/serial_to_tcp_bridge.js: one serial port bridged to   *)
(* a set of TCP clients.  Every handler the script registers is one        *)
(* action (handlers run to completion on the Node.js event loop); the      *)
(* serial device, the TCP peers and the operating system are the           *)
(* environment, which chooses the events and which socket calls throw.     *)
(* The script never looks inside a chunk, so the chunks of one run are     *)
(* taken pairwise distinct: the n-th chunk of the serial port is           *)
(* [n |-> n], the k-th chunk of the sockets is [from |-> s, k |-> k].      *)
(***************************************************************************)
EXTENDS Integers, Sequences, FiniteSets, TLC

\* ---------------------------------------------------------------- bounds
MaxSockets == 2        \* connections accepted in one run
MaxChunks == 2         \* 'data' events (serial port and sockets together) in one run
MaxSignals == 2        \* termination signals sent in one run

Sockets == 1..MaxSockets

VARIABLES
    serial,        \* SerialPort: "opening" | "open" | "closed" | "failed"
    server,        \* net.Server: "binding" | "listening" | "failed" | "closed"
    tcpClients,    \* the Set tcpClients, as the sequence of its members in insertion order
    sock,          \* per socket: "none" | "open" | "errored" | "destroyed" | "closed"
    recv,          \* per socket: the chunks client.write(data) accepted, in order
    serialWritten, \* the chunks serialPortInstance.write(data) accepted, in order
    proc,          \* the process: [state: "running" | "exited", code]
    calls,         \* the calls the most recent handler made on console/sockets/server/process
    emitted,       \* history: the chunks the serial port emitted, in order
    joinedAt,      \* history: Len(emitted) when the socket was accepted
    clientEvents,  \* history: the socket 'data' events handled, with isOpen at that time
    sigs,          \* history: termination signals sent so far
    shutdowns,     \* history: how many times a signal handler ran
    failedWrites   \* history: [s, n] for every client.write of chunk n to socket s that threw

vars == <<serial, server, tcpClients, sock, recv, serialWritten, proc, calls,
          emitted, joinedAt, clientEvents, sigs, shutdowns, failedWrites>>

\* ------------------------------------------------------------ helpers
Call(op, arg) == [op |-> op, arg |-> arg]

Running == proc.state = "running"

\* socket.destroyed: true from the moment the socket is torn down, before
\* its 'error' and 'close' events are delivered
Destroyed(status) == status \in {"errored", "destroyed", "closed"}

\* serialPortInstance.isOpen
isOpen == serial = "open"

\* members of the Set, as a set
Members(cs) == {cs[i] : i \in 1..Len(cs)}

\* Set.prototype.add: append unless already a member
SetAdd(cs, s) == IF s \in Members(cs) THEN cs ELSE Append(cs, s)

\* variant: delete by position, as array.splice(array.indexOf(s), 1) does:
\* for a socket that is no member the last member is removed
SetDelete_Splice(cs, s) ==
    IF s \in Members(cs) THEN SelectSeq(cs, LAMBDA c : c # s)
    ELSE SubSeq(cs, 1, Len(cs) - 1)

\* Set.prototype.delete: remove the member, keep the order of the rest
SetDelete(cs, s) == SelectSeq(cs, LAMBDA c : c # s)

\* socket.destroy(): marks the socket destroyed and schedules its 'close'
\* event; a no-op on a socket that is already destroyed.  The flag is set
\* before anything in destroy() can throw.
Destroy(status) == IF status = "open" THEN "destroyed" ELSE status

\* process.exit(code)
Exit(code) == [state |-> "exited", code |-> code]

Init ==
    /\ serial = "opening"
    /\ server = "binding"
    /\ tcpClients = <<>>
    /\ sock = [s \in Sockets |-> "none"]
    /\ recv = [s \in Sockets |-> <<>>]
    /\ serialWritten = <<>>
    /\ proc = [state |-> "running", code |-> -1]
    /\ calls = <<>>
    /\ emitted = <<>>
    /\ joinedAt = [s \in Sockets |-> 0]
    /\ clientEvents = <<>>
    /\ sigs = 0
    /\ shutdowns = 0
    /\ failedWrites = {}

\* ------------------------------------------------- serial 'data': fan-out
\* variants of the fan-out loop with a plausible slip each
\* (a) the chunk is put in front of what the client was written before
RECURSIVE ForOfClients_Reorder(_, _, _, _)
ForOfClients_Reorder(cs, data, throws, st) ==
    IF cs = <<>> THEN st
    ELSE LET client == Head(cs)
             st1 == IF ~Destroyed(sock[client])
                    THEN IF client \in throws
                         THEN [st EXCEPT !.calls = Append(@, Call("console.error:write", client)),
                                         !.dead = Append(@, client)]
                         ELSE [st EXCEPT !.recv[client] = <<data>> \o @,
                                         !.calls = Append(@, Call("write", client))]
                    ELSE st
         IN ForOfClients_Reorder(Tail(cs), data, throws, st1)

\* (b) the try/catch encloses the whole loop: the first failing write ends it
RECURSIVE ForOfClients_TryAroundLoop(_, _, _, _)
ForOfClients_TryAroundLoop(cs, data, throws, st) ==
    IF cs = <<>> THEN st
    ELSE LET client == Head(cs)
         IN IF ~Destroyed(sock[client]) /\ client \in throws
            THEN [st EXCEPT !.calls = Append(@, Call("console.error:write", client)),
                            !.dead = Append(@, client)]
            ELSE ForOfClients_TryAroundLoop(Tail(cs), data, throws,
                    IF ~Destroyed(sock[client])
                    THEN [st EXCEPT !.recv[client] = Append(@, data),
                                    !.calls = Append(@, Call("write", client))]
                    ELSE st)

\* (c) a socket found destroyed is pushed to deadClients as well
RECURSIVE ForOfClients_DestroyedIsDead(_, _, _, _)
ForOfClients_DestroyedIsDead(cs, data, throws, st) ==
    IF cs = <<>> THEN st
    ELSE LET client == Head(cs)
             st1 == IF ~Destroyed(sock[client])
                    THEN IF client \in throws
                         THEN [st EXCEPT !.calls = Append(@, Call("console.error:write", client)),
                                         !.dead = Append(@, client)]
                         ELSE [st EXCEPT !.recv[client] = Append(@, data),
                                         !.calls = Append(@, Call("write", client))]
                    ELSE [st EXCEPT !.dead = Append(@, client)]
         IN ForOfClients_DestroyedIsDead(Tail(cs), data, throws, st1)

\* (d) client.write is called without looking at client.destroyed
RECURSIVE ForOfClients_NoDestroyedCheck(_, _, _, _)
ForOfClients_NoDestroyedCheck(cs, data, throws, st) ==
    IF cs = <<>> THEN st
    ELSE LET client == Head(cs)
             st1 == IF client \in throws
                    THEN [st EXCEPT !.calls = Append(@, Call("console.error:write", client)),
                                    !.dead = Append(@, client)]
                    ELSE [st EXCEPT !.recv[client] = Append(@, data),
                                    !.calls = Append(@, Call("write", client))]
         IN ForOfClients_NoDestroyedCheck(Tail(cs), data, throws, st1)

\* for (const client of tcpClients) { try { if (!client.destroyed)
\* client.write(data) } catch { console.error; deadClients.push(client) } }
\* st = [recv, dead, calls]; throws = the sockets whose write() throws
RECURSIVE ForOfClients(_, _, _, _)
ForOfClients(cs, data, throws, st) ==
    IF cs = <<>> THEN st
    ELSE LET client == Head(cs)
             st1 == IF ~Destroyed(sock[client])
                    THEN IF client \in throws
                         THEN [st EXCEPT !.calls = Append(@, Call("console.error:write", client)),
                                         !.dead = Append(@, client)]
                         ELSE [st EXCEPT !.recv[client] = Append(@, data),
                                         !.calls = Append(@, Call("write", client))]
                    ELSE st
         IN ForOfClients(Tail(cs), data, throws, st1)

\* try { client.destroy() } catch (e) {}: what the guarded call leaves in
\* the trace; an exception of destroy() is swallowed
TryDestroy(client, dthrows) ==
    IF client \in dthrows THEN Call("destroy:threw", client) ELSE Call("destroy", client)

\* variant: the dead clients are deleted from the set but not destroyed
RECURSIVE RemoveDead_NoDestroy(_, _, _)
RemoveDead_NoDestroy(dead, dthrows, st) ==
    IF dead = <<>> THEN st
    ELSE RemoveDead_NoDestroy(Tail(dead), dthrows,
                              [st EXCEPT !.clients = SetDelete(@, Head(dead))])

\* variant: deadClients is collected but never processed
RemoveDead_Keep(dead, dthrows, st) == st

\* deadClients.forEach(client => { tcpClients.delete(client);
\* try { client.destroy() } catch (e) {} })
\* st = [clients, sock, calls]; dthrows = the sockets whose destroy() throws
RECURSIVE RemoveDead(_, _, _)
RemoveDead(dead, dthrows, st) ==
    IF dead = <<>> THEN st
    ELSE LET client == Head(dead)
             st1 == [clients |-> SetDelete(st.clients, client),
                     sock |-> [st.sock EXCEPT ![client] = Destroy(@)],
                     calls |-> Append(st.calls, TryDestroy(client, dthrows))]
         IN RemoveDead(Tail(dead), dthrows, st1)

\* the whole handler of serialPortInstance.on('data')
OnSerialData(data, throws, dthrows) ==
    IF Len(tcpClients) > 0
    THEN LET w == ForOfClients(tcpClients, data, throws,
                               [recv |-> recv, dead |-> <<>>, calls |-> <<>>])
             r == RemoveDead(w.dead, dthrows,
                             [clients |-> tcpClients, sock |-> sock, calls |-> w.calls])
         IN /\ recv' = w.recv
            /\ tcpClients' = r.clients
            /\ sock' = r.sock
            /\ calls' = r.calls
            /\ failedWrites' = failedWrites \cup {[s |-> w.dead[i], n |-> data.n] : i \in 1..Len(w.dead)}
    ELSE /\ calls' = <<>>
         /\ UNCHANGED <<recv, tcpClients, sock, failedWrites>>

SerialData ==
    /\ Running
    /\ isOpen
    /\ Len(emitted) + Len(clientEvents) < MaxChunks
    /\ \E throws \in SUBSET Members(tcpClients) :
      \E dthrows \in SUBSET throws :
          LET data == [n |-> Len(emitted) + 1]
          IN /\ OnSerialData(data, throws, dthrows)
             /\ emitted' = Append(emitted, data)
    /\ UNCHANGED <<serial, server, serialWritten, proc, joinedAt, clientEvents, sigs, shutdowns>>

\* ------------------------------------------- serial 'error' and 'close'
\* serialPortInstance.on('error'): a runtime I/O error of the open port
SerialError ==
    /\ Running
    /\ isOpen
    /\ calls' = <<Call("console.error:serial", 0)>>
    /\ UNCHANGED <<serial, server, tcpClients, sock, recv, serialWritten, proc,
                   emitted, joinedAt, clientEvents, sigs, shutdowns, failedWrites>>

\* variant: the close handler opens the port again
SerialClose_Reopen ==
    /\ Running
    /\ isOpen
    /\ serial' = "opening"
    /\ calls' = <<Call("console.log:serialClosed", 0)>>
    /\ UNCHANGED <<server, tcpClients, sock, recv, serialWritten, proc,
                   emitted, joinedAt, clientEvents, sigs, shutdowns, failedWrites>>

\* serialPortInstance.on('close'): the port closed under the bridge
\* (device unplugged); isOpen is false from then on
SerialClose ==
    /\ Running
    /\ isOpen
    /\ serial' = "closed"
    /\ calls' = <<Call("console.log:serialClosed", 0)>>
    /\ UNCHANGED <<server, tcpClients, sock, recv, serialWritten, proc,
                   emitted, joinedAt, clientEvents, sigs, shutdowns, failedWrites>>

\* ------------------------------------------------ serial open callback
\* variant: an open failure is only logged
OnSerialOpen_NoExit(error) ==
    IF error
    THEN /\ serial' = "failed"
         /\ calls' = <<Call("console.error:open", 0)>>
         /\ proc' = proc
    ELSE /\ serial' = "open"
         /\ calls' = <<Call("console.log:opened", 0)>>
         /\ proc' = proc

\* the callback of serialPortInstance.open with the outcome error
OnSerialOpen(error) ==
    IF error
    THEN /\ serial' = "failed"
         /\ calls' = <<Call("console.error:open", 0), Call("exit", 1)>>
         /\ proc' = Exit(1)
    ELSE /\ serial' = "open"
         /\ calls' = <<Call("console.log:opened", 0)>>
         /\ proc' = proc

SerialOpen ==
    /\ Running
    /\ serial = "opening"
    /\ \E error \in BOOLEAN : OnSerialOpen(error)
    /\ UNCHANGED <<server, tcpClients, sock, recv, serialWritten,
                   emitted, joinedAt, clientEvents, sigs, shutdowns, failedWrites>>

\* ------------------------------------------------------- TCP listener
\* the callback of server.listen: the listener is bound and accepting
Listening ==
    /\ Running
    /\ server = "binding"
    /\ server' = "listening"
    /\ calls' = <<Call("console.log:started", 0), Call("console.log:connectHint", 0)>>
    /\ UNCHANGED <<serial, tcpClients, sock, recv, serialWritten, proc,
                   emitted, joinedAt, clientEvents, sigs, shutdowns, failedWrites>>

\* server.on('error'): bind/listen failed (e.g. the port is in use)
ServerError ==
    /\ Running
    /\ server = "binding"
    /\ server' = "failed"
    /\ calls' = <<Call("console.error:server", 0)>>
    /\ UNCHANGED <<serial, tcpClients, sock, recv, serialWritten, proc,
                   emitted, joinedAt, clientEvents, sigs, shutdowns, failedWrites>>

\* variant: a new connection is first written the chunks emitted so far
Connection_Replay ==
    /\ Running
    /\ server = "listening"
    /\ \E s \in Sockets :
          /\ sock[s] = "none"
          /\ \A t \in Sockets : t < s => sock[t] # "none"
          /\ tcpClients' = SetAdd(tcpClients, s)
          /\ sock' = [sock EXCEPT ![s] = "open"]
          /\ recv' = [recv EXCEPT ![s] = emitted]
          /\ joinedAt' = [joinedAt EXCEPT ![s] = Len(emitted)]
          /\ calls' = <<Call("console.log:connected", s)>>
    /\ UNCHANGED <<serial, server, serialWritten, proc,
                   emitted, clientEvents, sigs, shutdowns, failedWrites>>

\* createServer((socket) => ...): a connection is accepted; sockets are
\* numbered in the order they are accepted
Connection ==
    /\ Running
    /\ server = "listening"
    /\ \E s \in Sockets :
          /\ sock[s] = "none"
          /\ \A t \in Sockets : t < s => sock[t] # "none"
          /\ tcpClients' = SetAdd(tcpClients, s)
          /\ sock' = [sock EXCEPT ![s] = "open"]
          /\ joinedAt' = [joinedAt EXCEPT ![s] = Len(emitted)]
          /\ calls' = <<Call("console.log:connected", s)>>
    /\ UNCHANGED <<serial, server, recv, serialWritten, proc,
                   emitted, clientEvents, sigs, shutdowns, failedWrites>>

\* ------------------------------------------------- per-socket handlers
\* variant: the chunk is written without looking at isOpen
OnSocketData_NoGuard(data) ==
    /\ serialWritten' = Append(serialWritten, data)
    /\ calls' = <<Call("serial.write", data.from)>>

\* variant: the chunk is put in front of what was written to the port before
OnSocketData_Prepend(data) ==
    IF isOpen
    THEN /\ serialWritten' = <<data>> \o serialWritten
         /\ calls' = <<Call("serial.write", data.from)>>
    ELSE /\ serialWritten' = serialWritten
         /\ calls' = <<Call("console.warn:dropping", 0)>>

\* variant: the chunk is written unless the port is known closed, so also
\* while the open is still in progress
OnSocketData_WriteWhileOpening(data) ==
    IF serial \in {"open", "opening"}
    THEN /\ serialWritten' = Append(serialWritten, data)
         /\ calls' = <<Call("serial.write", data.from)>>
    ELSE /\ serialWritten' = serialWritten
         /\ calls' = <<Call("console.warn:dropping", 0)>>

\* socket.on('data'): what the handler does with the chunk
OnSocketData(data) ==
    IF isOpen
    THEN /\ serialWritten' = Append(serialWritten, data)
         /\ calls' = <<Call("serial.write", data.from)>>
    ELSE /\ serialWritten' = serialWritten
         /\ calls' = <<Call("console.warn:dropping", 0)>>

\* variant: a client whose chunk is dropped is disconnected
SocketData_DropDisconnects ==
    /\ Running
    /\ Len(emitted) + Len(clientEvents) < MaxChunks
    /\ \E s \in Sockets :
          /\ sock[s] = "open"
          /\ LET data == [from |-> s, k |-> Len(clientEvents) + 1]
             IN /\ OnSocketData(data)
                /\ clientEvents' = Append(clientEvents, [data |-> data, open |-> isOpen])
          /\ IF isOpen
             THEN UNCHANGED <<tcpClients, sock>>
             ELSE /\ tcpClients' = SetDelete(tcpClients, s)
                  /\ sock' = [sock EXCEPT ![s] = Destroy(@)]
    /\ UNCHANGED <<serial, server, recv, proc,
                   emitted, joinedAt, sigs, shutdowns, failedWrites>>

SocketData ==
    /\ Running
    /\ Len(emitted) + Len(clientEvents) < MaxChunks
    /\ \E s \in Sockets :
          /\ sock[s] = "open"
          /\ LET data == [from |-> s, k |-> Len(clientEvents) + 1]
             IN /\ OnSocketData(data)
                /\ clientEvents' = Append(clientEvents, [data |-> data, open |-> isOpen])
    /\ UNCHANGED <<serial, server, tcpClients, sock, recv, proc,
                   emitted, joinedAt, sigs, shutdowns, failedWrites>>

\* the peer resets the connection or a socket I/O error occurs: Node
\* destroys the socket, then delivers 'error' and after it 'close'
SocketFail ==
    /\ Running
    /\ \E s \in Sockets :
          /\ sock[s] = "open"
          /\ sock' = [sock EXCEPT ![s] = "errored"]
    /\ UNCHANGED <<serial, server, tcpClients, recv, serialWritten, proc, calls,
                   emitted, joinedAt, clientEvents, sigs, shutdowns, failedWrites>>

\* the peer ends the connection: Node destroys the socket, then
\* delivers 'close'
PeerClose ==
    /\ Running
    /\ \E s \in Sockets :
          /\ sock[s] = "open"
          /\ sock' = [sock EXCEPT ![s] = "destroyed"]
    /\ UNCHANGED <<serial, server, tcpClients, recv, serialWritten, proc, calls,
                   emitted, joinedAt, clientEvents, sigs, shutdowns, failedWrites>>

\* variant: the error handler drops the socket from the set
SocketError_Deletes ==
    /\ Running
    /\ \E s \in Sockets :
          /\ sock[s] = "errored"
          /\ sock' = [sock EXCEPT ![s] = "destroyed"]
          /\ tcpClients' = SetDelete(tcpClients, s)
          /\ calls' = <<Call("console.error:client", s)>>
    /\ UNCHANGED <<serial, server, recv, serialWritten, proc,
                   emitted, joinedAt, clientEvents, sigs, shutdowns, failedWrites>>

\* socket.on('error'): the pending 'error' event is delivered; 'close' follows
SocketError ==
    /\ Running
    /\ \E s \in Sockets :
          /\ sock[s] = "errored"
          /\ sock' = [sock EXCEPT ![s] = "destroyed"]
          /\ calls' = <<Call("console.error:client", s)>>
    /\ UNCHANGED <<serial, server, tcpClients, recv, serialWritten, proc,
                   emitted, joinedAt, clientEvents, sigs, shutdowns, failedWrites>>

\* variant: the close handler only reports the disconnection
SocketClose_NoDelete ==
    /\ Running
    /\ \E s \in Sockets :
          /\ sock[s] = "destroyed"
          /\ sock' = [sock EXCEPT ![s] = "closed"]
          /\ calls' = <<Call("console.log:disconnected", s)>>
    /\ UNCHANGED <<serial, server, tcpClients, recv, serialWritten, proc,
                   emitted, joinedAt, clientEvents, sigs, shutdowns, failedWrites>>

\* socket.on('close'): the pending 'close' event of a destroyed socket
SocketClose ==
    /\ Running
    /\ \E s \in Sockets :
          /\ sock[s] = "destroyed"
          /\ tcpClients' = SetDelete(tcpClients, s)
          /\ sock' = [sock EXCEPT ![s] = "closed"]
          /\ calls' = <<Call("console.log:disconnected", s)>>
    /\ UNCHANGED <<serial, server, recv, serialWritten, proc,
                   emitted, joinedAt, clientEvents, sigs, shutdowns, failedWrites>>

\* ------------------------------------------------------------ shutdown
\* serialPortInstance.close(): closes an open port; on a port that is not
\* open it only schedules an 'error' event for a later tick
SerialPortClose(st) == IF st = "open" THEN "closed" ELSE st

\* server.close(): stops a bound or binding listener; a no-op otherwise
ServerClose(st) == IF st \in {"binding", "listening"} THEN "closed" ELSE st

\* variant: destroy() is called without try/catch, the first exception ends
\* the forEach
RECURSIVE DestroyAll_Unguarded(_, _, _)
DestroyAll_Unguarded(cs, dthrows, st) ==
    IF cs = <<>> THEN st
    ELSE LET client == Head(cs)
             st1 == [sock |-> [st.sock EXCEPT ![client] = Destroy(@)],
                     calls |-> Append(st.calls, TryDestroy(client, dthrows))]
         IN IF client \in dthrows THEN st1
            ELSE DestroyAll_Unguarded(Tail(cs), dthrows, st1)

\* tcpClients.forEach(client => { try { client.destroy() } catch (e) {} })
\* st = [sock, calls]; dthrows = the sockets whose destroy() throws
RECURSIVE DestroyAll(_, _, _)
DestroyAll(cs, dthrows, st) ==
    IF cs = <<>> THEN st
    ELSE LET client == Head(cs)
             st1 == [sock |-> [st.sock EXCEPT ![client] = Destroy(@)],
                     calls |-> Append(st.calls, TryDestroy(client, dthrows))]
         IN DestroyAll(Tail(cs), dthrows, st1)

\* variant: the handler tears down but does not call process.exit
Shutdown_NoExit(dthrows) ==
    LET d == DestroyAll(tcpClients, dthrows,
                        [sock |-> sock,
                         calls |-> <<Call("console.log:shuttingDown", 0),
                                     Call("serial.close", 0)>>])
    IN /\ serial' = SerialPortClose(serial)
       /\ sock' = d.sock
       /\ server' = ServerClose(server)
       /\ calls' = d.calls \o <<Call("server.close", 0)>>
       /\ proc' = proc

\* the body shared by the SIGINT and the SIGTERM handler
Shutdown(dthrows) ==
    LET d == DestroyAll(tcpClients, dthrows,
                        [sock |-> sock,
                         calls |-> <<Call("console.log:shuttingDown", 0),
                                     Call("serial.close", 0)>>])
    IN /\ serial' = SerialPortClose(serial)
       /\ sock' = d.sock
       /\ server' = ServerClose(server)
       /\ calls' = d.calls \o <<Call("server.close", 0), Call("exit", 0)>>
       /\ proc' = Exit(0)

\* process.on('SIGINT')
SIGINT ==
    /\ Running
    /\ sigs < MaxSignals
    /\ \E dthrows \in SUBSET Members(tcpClients) : Shutdown(dthrows)
    /\ sigs' = sigs + 1
    /\ shutdowns' = shutdowns + 1
    /\ UNCHANGED <<tcpClients, recv, serialWritten, emitted, joinedAt, clientEvents, failedWrites>>

\* process.on('SIGTERM')
SIGTERM ==
    /\ Running
    /\ sigs < MaxSignals
    /\ \E dthrows \in SUBSET Members(tcpClients) : Shutdown(dthrows)
    /\ sigs' = sigs + 1
    /\ shutdowns' = shutdowns + 1
    /\ UNCHANGED <<tcpClients, recv, serialWritten, emitted, joinedAt, clientEvents, failedWrites>>

\* a signal sent after process.exit: the process is gone, no handler runs
SignalAfterExit ==
    /\ ~Running
    /\ sigs < MaxSignals
    /\ sigs' = sigs + 1
    /\ UNCHANGED <<serial, server, tcpClients, sock, recv, serialWritten, proc, calls,
                   emitted, joinedAt, clientEvents, shutdowns, failedWrites>>

Next ==
    \/ SerialData
    \/ SerialError
    \/ SerialClose
    \/ SerialOpen
    \/ Listening
    \/ ServerError
    \/ Connection
    \/ SocketData
    \/ SocketFail
    \/ PeerClose
    \/ SocketError
    \/ SocketClose
    \/ SIGINT
    \/ SIGTERM
    \/ SignalAfterExit

Spec == Init /\ [][Next]_vars

\* Node delivers the pending 'error' and 'close' events of every destroyed
\* socket for as long as the process runs
EventDelivery ==
    \A s \in Sockets :
        /\ WF_vars(SocketError /\ sock[s] = "errored" /\ sock'[s] = "destroyed")
        /\ WF_vars(SocketClose /\ sock[s] = "destroyed" /\ sock'[s] = "closed")

FairSpec == Init /\ [][Next]_vars /\ EventDelivery

TypeOK ==
    /\ serial \in {"opening", "open", "closed", "failed"}
    /\ server \in {"binding", "listening", "failed", "closed"}
    /\ Members(tcpClients) \subseteq Sockets
    /\ Cardinality(Members(tcpClients)) = Len(tcpClients)
    /\ sock \in [Sockets -> {"none", "open", "errored", "destroyed", "closed"}]
    /\ proc.state \in {"running", "exited"}
    /\ Len(emitted) + Len(clientEvents) <= MaxChunks
    /\ sigs \in 0..MaxSignals

\* ================================================================ claims
\* the last chunk the serial port emitted
LastEmitted == emitted[Len(emitted)]

\* the most recent handler logged a failed write to socket c
WriteThrew(c) == \E i \in 1..Len(calls) : calls[i] = Call("console.error:write", c)

\* the most recent handler wrote its chunk to socket c
WriteDone(c) == \E i \in 1..Len(calls) : calls[i] = Call("write", c)

Range(f) == {f[i] : i \in 1..Len(f)}

\* C1 (P1 fan-out order): a client that has been in the client set and not
\* destroyed since it was accepted has been written exactly the chunks the
\* serial port emitted since then, in the order emitted, each once, unchanged.
C1_FanOutOrder ==
    \A s \in Members(tcpClients) :
        sock[s] = "open" => recv[s] = SubSeq(emitted, joinedAt[s] + 1, Len(emitted))

\* a connected client has been written two chunks
C1_Witness ==
    \E s \in Members(tcpClients) :
        /\ sock[s] = "open"
        /\ Len(recv[s]) >= 2
        /\ recv[s] = SubSeq(emitted, joinedAt[s] + 1, Len(emitted))

\* C2 (P2 isolation on failure): in a fan-out pass in which the write to A
\* throws and B is a healthy member (open, its write does not throw), B is
\* written the chunk of that pass, A is no member afterwards, and B still is
\* a member and still open; A may come before or after B in the iteration.
C2_IsolationOnFailure ==
    [][SerialData =>
        \A A, B \in Members(tcpClients) :
            (A # B /\ WriteThrew(A)' /\ sock[B] = "open" /\ ~WriteThrew(B)') =>
                /\ recv'[B] = Append(recv[B], LastEmitted')
                /\ A \notin Members(tcpClients')
                /\ B \in Members(tcpClients')
                /\ sock'[B] = "open"]_vars

\* the write to the client iterated first threw and the client iterated
\* after it was written the chunk in the same pass
C2_Witness ==
    /\ Len(calls) >= 2
    /\ calls[1] = Call("console.error:write", 1)
    /\ calls[2] = Call("write", 2)
    /\ 1 \notin Members(tcpClients)
    /\ 2 \in Members(tcpClients)
    /\ sock[2] = "open"
    /\ Len(recv[2]) >= 1
    /\ recv[2][Len(recv[2])] = LastEmitted

C4_ListenerFailureFatal ==
    server = "failed" => (proc.state = "exited" /\ proc.code # 0)

\* C5 (P5 idempotent shutdown): however many termination signals are sent
\* and whatever the state of the serial port and of the clients, a signal
\* handler runs at most once, and once it has run the process has exited
\* with status 0.
C5_IdempotentShutdown ==
    /\ shutdowns <= 1
    /\ shutdowns >= 1 => proc = Exit(0)

\* two signals were sent to a bridge whose serial port never opened and
\* which holds a client that was already destroyed at the first signal
C5_Witness ==
    /\ sigs >= 2
    /\ shutdowns = 1
    /\ proc = Exit(0)
    /\ serial = "opening"
    /\ \E c \in Members(tcpClients) : sock[c] \in {"errored", "closed"}

\* C6 (P3 empty-set discard): a serial chunk handled while the client set is
\* empty changes nothing (no socket is written, nothing is kept), and no
\* socket is ever written a chunk that was emitted before it was accepted.
C6_EmptySetDiscard ==
    /\ [][(SerialData /\ tcpClients = <<>>) =>
            /\ UNCHANGED <<recv, tcpClients, sock, serialWritten, serial, server, proc>>
            /\ calls' = <<>>]_vars
    /\ [](\A s \in Sockets : \A i \in 1..Len(recv[s]) : recv[s][i].n > joinedAt[s])

\* the first client was accepted after chunk 1 had been discarded and has
\* been written chunk 2 alone
C6_Witness ==
    /\ sock[1] = "open"
    /\ joinedAt[1] = 1
    /\ Len(emitted) = 2
    /\ recv[1] = <<emitted[2]>>

\* C7 (P4 serial-closed drop): a socket 'data' event handled while the
\* serial port is not open writes nothing to the serial port, reports the
\* warning, leaves the client set, every socket and the process as they
\* are; and a chunk dropped this way is never written to the serial port.
C7_SerialClosedDrop ==
    /\ [][(SocketData /\ ~isOpen) =>
            /\ serialWritten' = serialWritten
            /\ calls' = <<Call("console.warn:dropping", 0)>>
            /\ UNCHANGED <<tcpClients, sock, proc, serial>>]_vars
    /\ [](\A i \in 1..Len(clientEvents) :
            ~clientEvents[i].open => clientEvents[i].data \notin Range(serialWritten))

\* a chunk was dropped before the port opened, a later chunk was written to
\* the open port, and the sender of the dropped chunk is still connected
C7_Witness ==
    /\ Len(clientEvents) = 2
    /\ ~clientEvents[1].open
    /\ clientEvents[2].open
    /\ serialWritten = <<clientEvents[2].data>>
    /\ clientEvents[1].data.from \in Members(tcpClients)
    /\ sock[clientEvents[1].data.from] = "open"

\* C8 (shutdown sequence): once a signal handler has run, it has made, in
\* this order, the calls serial.close, destroy on every member of the
\* client set (in spite of a destroy that threw), server.close and exit(0);
\* the serial port is not open, every member is destroyed, the listener is
\* neither binding nor listening and the process has exited with status 0
\* in that same handler.
C8_ShutdownSequence ==
    shutdowns >= 1 =>
        /\ Len(calls) = Len(tcpClients) + 4
        /\ calls[1] = Call("console.log:shuttingDown", 0)
        /\ calls[2] = Call("serial.close", 0)
        /\ \A i \in 1..Len(tcpClients) :
              /\ calls[2 + i] \in {Call("destroy", tcpClients[i]),
                                   Call("destroy:threw", tcpClients[i])}
              /\ Destroyed(sock[tcpClients[i]])
        /\ calls[Len(calls) - 1] = Call("server.close", 0)
        /\ calls[Len(calls)] = Call("exit", 0)
        /\ ~isOpen
        /\ server \notin {"binding", "listening"}
        /\ proc = Exit(0)

\* shutdown with two clients: destroy threw on the first, the second was
\* destroyed all the same
C8_Witness ==
    /\ shutdowns = 1
    /\ Len(tcpClients) = 2
    /\ calls[3] = Call("destroy:threw", tcpClients[1])
    /\ calls[4] = Call("destroy", tcpClients[2])
    /\ sock[tcpClients[2]] = "destroyed"
    /\ serial = "closed"
    /\ server = "closed"
    /\ proc = Exit(0)

\* C9 (serial open failure is fatal): whenever the open of the serial port
\* has failed, the failure has been reported and the process has exited
\* with status 1, whatever the listener and the clients.
C9_SerialOpenFailureFatal ==
    serial = "failed" =>
        /\ proc = Exit(1)
        /\ Len(calls) >= 1
        /\ calls[1] = Call("console.error:open", 0)

\* the open failed while the listener was accepting and a client connected
C9_Witness ==
    /\ serial = "failed"
    /\ server = "listening"
    /\ \E c \in Members(tcpClients) : sock[c] = "open"
    /\ proc = Exit(1)

\* C10 (client ownership): every socket that is open is a member of the
\* client set, and a socket that leaves the set in a step is destroyed when
\* that step ends.
C10_ClientOwnership ==
    /\ [](\A s \in Sockets : sock[s] = "open" => s \in Members(tcpClients))
    /\ [][\A s \in Members(tcpClients) :
            s \notin Members(tcpClients') => Destroyed(sock'[s])]_vars

\* a fan-out pass removed and destroyed one client while another one is
\* open and still a member
C10_Witness ==
    \E s, t \in Sockets :
        /\ sock[s] = "destroyed"
        /\ s \notin Members(tcpClients)
        /\ sock[t] = "open"
        /\ t \in Members(tcpClients)

\* C11 (removal lags but happens): with the pending socket events delivered,
\* every destroyed member of the client set is eventually no member any
\* more, unless the process exits first; and a socket that was accepted and
\* is no member never becomes a member again.
C11_RemovalEventually ==
    /\ \A s \in Sockets :
          (Destroyed(sock[s]) /\ s \in Members(tcpClients))
              ~> (s \notin Members(tcpClients) \/ ~Running)
    /\ [][\A s \in Sockets :
            (sock[s] # "none" /\ s \notin Members(tcpClients))
                => s \notin Members(tcpClients')]_vars

\* the lag: a socket whose 'close' event is pending is still a member
\* after a fan-out pass has skipped it
C11_Witness ==
    \E s \in Members(tcpClients) :
        /\ sock[s] = "destroyed"
        /\ Running
        /\ Len(recv[s]) < Len(emitted) - joinedAt[s]

\* how many times the most recent handler called client.write on socket c
\* (calls that threw included)
Attempts(c) ==
    Cardinality({i \in 1..Len(calls) :
                    calls[i] \in {Call("write", c), Call("console.error:write", c)}})

\* C12 (fan-out pass is atomic and exact): in the one step that handles a
\* serial chunk, client.write is called exactly once on every socket that was
\* a non-destroyed member when the step began and on no other socket; every
\* socket whose write did not throw has exactly that chunk appended, every
\* other socket is written nothing (so a socket removed before the chunk
\* arrived is not written it); and the members whose write threw are removed
\* in that same step, no other handler in between.
C12_FanOutExact ==
    [][SerialData =>
        /\ \A c \in Sockets :
              /\ Attempts(c)' = IF c \in Members(tcpClients) /\ ~Destroyed(sock[c])
                                THEN 1 ELSE 0
              /\ recv'[c] = IF WriteDone(c)' THEN Append(recv[c], LastEmitted') ELSE recv[c]
              /\ ~(WriteDone(c)' /\ WriteThrew(c)')
        /\ Members(tcpClients') =
              Members(tcpClients) \ {c \in Sockets : WriteThrew(c)'}]_vars

\* client 1 has disconnected and left the set; the next chunk was written
\* to client 2 alone
C12_Witness ==
    /\ sock[1] = "closed"
    /\ 1 \notin Members(tcpClients)
    /\ calls = <<Call("write", 2)>>
    /\ Len(emitted) >= 1
    /\ joinedAt[1] < Len(emitted)
    /\ LastEmitted \notin Range(recv[1])
    /\ recv[2][Len(recv[2])] = LastEmitted

\* the chunks of the socket 'data' events handled while the port was open
ForwardedEvents == SelectSeq(clientEvents, LAMBDA e : e.open)

\* C13 (client-to-serial forwarding): the chunks written to the serial port
\* are exactly the chunks of the socket 'data' events handled while the port
\* was open, each once, unchanged, in the order the events were handled
\* (whichever sockets they came from); a socket 'data' event writes to no
\* client, and no client is ever written a chunk that came from a socket.
C13_ClientToSerial ==
    /\ [](/\ Len(serialWritten) = Len(ForwardedEvents)
          /\ \A i \in 1..Len(serialWritten) : serialWritten[i] = ForwardedEvents[i].data
          /\ \A s \in Sockets : Range(recv[s]) \subseteq Range(emitted))
    /\ [][SocketData => (recv' = recv)]_vars

\* two chunks of two different clients were written to the open port, the
\* later-accepted client's first
C13_Witness ==
    /\ Len(serialWritten) = 2
    /\ serialWritten[1].from = 2
    /\ serialWritten[2].from = 1
    /\ serialWritten[1].k < serialWritten[2].k
    /\ \A s \in Sockets : recv[s] = <<>>

\* C14 (no retry after a failed write): a socket whose write of chunk n
\* threw has been written neither chunk n nor any later chunk, is no member
\* of the client set and is destroyed; later chunks go to the other and to
\* newly accepted sockets only.
C14_NoRetry ==
    \A f \in failedWrites :
        /\ \A i \in 1..Len(recv[f.s]) : recv[f.s][i].n < f.n
        /\ f.s \notin Members(tcpClients)
        /\ Destroyed(sock[f.s])

\* the write of chunk 1 to client 1 threw; client 2 connected afterwards and
\* was written chunk 2, client 1 was written nothing
C14_Witness ==
    /\ [s |-> 1, n |-> 1] \in failedWrites
    /\ Len(emitted) = 2
    /\ recv[1] = <<>>
    /\ joinedAt[2] = 1
    /\ recv[2] = <<emitted[2]>>

\* C15 (error events only report): handling a socket 'error' event leaves
\* the client set and every socket's destroyed flag as they are and only
\* logs; handling a serial 'error' event leaves the open/closed state of the
\* port, the client set, the sockets and the process as they are.
C15_ErrorEventsOnlyReport ==
    /\ [][SocketError =>
            /\ tcpClients' = tcpClients
            /\ \A s \in Sockets : Destroyed(sock'[s]) = Destroyed(sock[s])
            /\ Len(calls') = 1 /\ calls'[1].op = "console.error:client"
            /\ UNCHANGED <<serial, server, proc, recv, serialWritten>>]_vars
    /\ [][SerialError =>
            /\ calls' = <<Call("console.error:serial", 0)>>
            /\ UNCHANGED <<serial, tcpClients, sock, proc, server, recv, serialWritten>>]_vars

\* the 'error' event of a member was handled: the socket is still a member,
\* its 'close' event is pending
C15_Witness ==
    \E s \in Members(tcpClients) :
        /\ calls = <<Call("console.error:client", s)>>
        /\ sock[s] = "destroyed"
        /\ Running

\* C16 (no serial reopen): the port becomes open only from its one open()
\* at startup; once it is closed or its open has failed it keeps that state;
\* an unsolicited close leaves the process running; and a socket 'data'
\* event handled after the port has closed writes nothing to it.
C16_NoSerialReopen ==
    /\ [][(serial' = "open" /\ serial # "open") => (SerialOpen /\ serial = "opening")]_vars
    /\ [][(serial \in {"closed", "failed"}) => (serial' = serial)]_vars
    /\ [][(serial # "opening") => (serial' # "opening")]_vars
    /\ [][SerialClose => (proc' = proc /\ Running')]_vars
    /\ [][(SocketData /\ serial = "closed") => (serialWritten' = serialWritten)]_vars

\* the port closed under the running bridge: the chunk a client sent before
\* was written, the chunk sent after the close was dropped
C16_Witness ==
    /\ serial = "closed"
    /\ Running
    /\ Len(clientEvents) = 2
    /\ clientEvents[1].open
    /\ ~clientEvents[2].open
    /\ serialWritten = <<clientEvents[1].data>>

\* C17 (listener does not wait for the serial open): a socket 'data' event
\* handled while the open of the port is still in progress writes nothing to
\* the port and reports the warning, and the completion of the open writes
\* nothing to the port either, so such a chunk is never written.
C17_DropBeforeOpen ==
    /\ [][(SocketData /\ serial = "opening") =>
            /\ serialWritten' = serialWritten
            /\ calls' = <<Call("console.warn:dropping", 0)>>]_vars
    /\ [][SerialOpen => (serialWritten' = serialWritten)]_vars
    /\ [](serial = "opening" => serialWritten = <<>>)

\* a client was accepted and sent a chunk before the open completed; the
\* port is open now, the chunk was not written, the client is still a member
C17_Witness ==
    /\ serial = "open"
    /\ Len(clientEvents) >= 1
    /\ ~clientEvents[1].open
    /\ serialWritten = <<>>
    /\ clientEvents[1].data.from \in Members(tcpClients)
    /\ sock[clientEvents[1].data.from] = "open"

\* C18 (removal is idempotent across the two paths): handling the 'close'
\* event of a socket removes that socket and no other from the client set,
\* changes nothing in the set when a fan-out pass has removed the socket
\* already, and raises nothing; a fan-out pass calls neither write nor
\* destroy on a socket that is no member and leaves it as it is.
C18_RemovalIdempotent ==
    /\ [][SocketClose =>
            \E c \in Sockets :
                /\ sock[c] = "destroyed" /\ sock'[c] = "closed"
                /\ tcpClients' = SelectSeq(tcpClients, LAMBDA m : m # c)
                /\ c \notin Members(tcpClients) => tcpClients' = tcpClients
                /\ \A t \in Sockets \ {c} : sock'[t] = sock[t]
                /\ proc' = proc]_vars
    /\ [][SerialData =>
            \A c \in Sockets \ Members(tcpClients) :
                /\ Attempts(c)' = 0
                /\ \A i \in 1..Len(calls') : calls'[i].arg # c
                /\ sock'[c] = sock[c]
                /\ recv'[c] = recv[c]]_vars

\* the 'close' event of a client that a fan-out pass had removed was
\* handled while another client is connected: that one is still a member
C18_Witness ==
    \E c, t \in Sockets :
        /\ \E f \in failedWrites : f.s = c
        /\ sock[c] = "closed"
        /\ calls = <<Call("console.log:disconnected", c)>>
        /\ t # c
        /\ tcpClients = <<t>>
        /\ sock[t] = "open"
        /\ Running

\* C19 (client-data events leave the client set alone): a socket 'data'
\* event changes neither the client set nor any socket's state, forwarded
\* or dropped; a member is added only by the connection handler, and a
\* member is removed only by a socket 'close' handler or a fan-out pass.
C19_SetChangesOnlyByThree ==
    /\ [][SocketData => UNCHANGED <<tcpClients, sock>>]_vars
    /\ [][(Members(tcpClients') \ Members(tcpClients) # {}) => Connection]_vars
    /\ [][(Members(tcpClients) \ Members(tcpClients') # {}) =>
            (SocketClose \/ SerialData)]_vars

\* a chunk was forwarded, then a chunk of the same run was dropped, and
\* both clients are still members and open
C19_Witness ==
    /\ calls = <<Call("console.warn:dropping", 0)>>
    /\ Len(clientEvents) = 2
    /\ clientEvents[1].open
    /\ Len(tcpClients) = 2
    /\ \A c \in Members(tcpClients) : sock[c] = "open"
    /\ Running
====
